---- MODULE Spec2Model ----
(***************************************************************************)
(* Model of server/index.ts: the permission-gated document server.        *)
(* Hooks (onAuthenticate, onLoadDocument, onDisconnect), bindState and    *)
(* the replication handler are translated from the source; every await    *)
(* of the source is a point where other handlers may run.                 *)
(***************************************************************************)
EXTENDS Integers, Sequences, FiniteSets, TLC

\* ------------------------------------------------------------------ bounds
MaxClock == 1
MaxLog == 2
MaxConns == 2
MaxGen == 2
MaxPending == 1

\* ------------------------------------------------------------------ domains
Tenants == {"ts1", "ts2"}
Tokens == {"abc123", "xyz789"}
ThoughtIds == {"T1"}
LexemeKeys == {"L1"}
Roles == {"owner", "editor"}
Names == {"Owner", "Guest"}
ContentUpdates == {"u1", "u2"}
StoreKinds == {"content", "log", "cursor"}
NoHandle == 0
NoCursor == -1

\* src/@types/DocLogAction
DocLogAction == [Delete |-> "Delete", Update |-> "Update"]

\* ------------------------------------------------- document name encoder
encodeThoughtDocumentName(tsid, id) == <<tsid, "thought", id>>
encodeLexemeDocumentName_AsThought(tsid, key) == <<tsid, "thought", key>>
encodeLexemeDocumentName(tsid, key) == <<tsid, "lexeme", key>>
encodeDocLogDocumentName(tsid) == <<tsid, "doclog">>
encodePermissionsDocumentName(tsid) == <<tsid, "permissions">>
parseDocumentName(name) == [tsid |-> name[1], type |-> name[2]]

ContentNamesOf(T) ==
    {encodeThoughtDocumentName(t, i) : t \in T, i \in ThoughtIds}
        \cup {encodeLexemeDocumentName(t, k) : t \in T, k \in LexemeKeys}
DocLogNamesOf(T) == {encodeDocLogDocumentName(t) : t \in T}
PermissionsNamesOf(T) == {encodePermissionsDocumentName(t) : t \in T}
UnrecognizedNamesOf(T) == {<<t, "unknown">> : t \in T}
BindNamesOf(T) == ContentNamesOf(T) \cup DocLogNamesOf(T)
DocumentNamesOf(T) ==
    BindNamesOf(T) \cup PermissionsNamesOf(T) \cup UnrecognizedNamesOf(T)
BindNames == BindNamesOf(Tenants)

\* a DocumentName: tenant, kind, and the entity for a thought or a lexeme
NoEntity == ""
DocumentNameTriples ==
    [tenantId : Tenants, kind : {"thought"}, entityId : ThoughtIds]
        \cup [tenantId : Tenants, kind : {"lexeme"}, entityId : LexemeKeys]
        \cup [tenantId : Tenants, kind : {"doclog", "permissions"}, entityId : {NoEntity}]
encodeDocumentName(x) ==
    CASE x.kind = "thought" -> encodeThoughtDocumentName(x.tenantId, x.entityId)
      [] x.kind = "lexeme" -> encodeLexemeDocumentName(x.tenantId, x.entityId)
      [] x.kind = "doclog" -> encodeDocLogDocumentName(x.tenantId)
      [] OTHER -> encodePermissionsDocumentName(x.tenantId)
DecodeError == [tenantId |-> "", kind |-> "DecodeError", entityId |-> NoEntity]
\* decoding a key: its segments, or a DecodeError for a key no DocumentName encodes to
decodeDocumentName(name) ==
    IF \/ Len(name) \notin {2, 3}
       \/ Len(name) = 3 /\ parseDocumentName(name).type \notin {"thought", "lexeme"}
       \/ Len(name) = 2 /\ parseDocumentName(name).type \notin {"doclog", "permissions"}
    THEN DecodeError
    ELSE [tenantId |-> parseDocumentName(name).tsid,
          kind |-> parseDocumentName(name).type,
          entityId |-> IF Len(name) = 3 THEN name[3] ELSE NoEntity]
DocumentNames == DocumentNamesOf(Tenants)

\* ------------------------------------------------------------------ state
VARIABLES
    permissionsServerDoc,   \* Y.Doc of line 30: tsid -> (token -> Share)
    permissionsClientMap,   \* the client-facing permissions document's map, per tsid
    observed,               \* tsid -> the observer of line 147 is installed
    clock,                  \* the logical clock timestamp() reads
    authed,                 \* contexts {token} returned by onAuthenticate, with their document
    documents,              \* server.documents: names of the live documents
    connected,              \* name -> number of established connections
    authResult,             \* outcome of the latest onAuthenticate call
    ydoc,                   \* name -> live state of a bound document (a set of updates)
    handler,                \* name -> handle the 'update' handler of line 79 writes to
    bind,                   \* name -> the bindState call in flight
    persisted,              \* name -> state stored on disk under the name
    cursorDisk,             \* tsid -> persisted replication cursor
    ldbThoughtspaces,       \* registries of lines 69-71: tsid -> handle
    ldbDoclogs,
    ldbReplicationCursors,
    handleGen,              \* <<tsid, kind>> -> number of handles ever opened
    handleOpen,             \* handles not yet destroyed/closed: <<tsid, kind, gen>>
    closing,                \* tsid -> onDisconnect is awaiting replicationCursorDb.close()
    controller,             \* tsid -> the replication controller attached to the doclog
    deliveries,             \* tsid -> entry -> times handed to next (saturating at 2)
    logSeq,                 \* tsid -> number of entries ever appended to the doclog
    ioOnDestroyed,          \* some store call was issued against a destroyed handle
    startup,                \* the bindState call of line 233 and whether the server listens
    permissionsDisk,        \* what ldbPermissions holds under 'permissions': tsid -> map
    console,                \* the diagnostics console.error has reported
    sigint                  \* the handler of lines 268-278 has run

permVars == <<permissionsServerDoc, permissionsClientMap, observed, clock>>
connVars == <<authed, documents, connected>>
docVars == <<ydoc, handler, bind>>
diskVars == <<persisted, cursorDisk>>
registryVars == <<ldbThoughtspaces, ldbDoclogs, ldbReplicationCursors, handleGen, handleOpen, closing>>
replVars == <<controller, deliveries, logSeq>>
startVars == <<startup, permissionsDisk, sigint>>
vars == <<permVars, connVars, authResult, docVars, diskVars, registryVars, replVars, ioOnDestroyed,
          startVars, console>>

\* ------------------------------------------------------------------ Y.Map
EmptyMap == [k \in {} |-> 0]
MapHas(m, k) == k \in DOMAIN m
MapSize(m) == Cardinality(DOMAIN m)
MapSet(m, k, v) == [x \in (DOMAIN m) \cup {k} |-> IF x = k THEN v ELSE m[x]]
MapDelete(m, k) == [x \in (DOMAIN m) \ {k} |-> m[x]]

\* src/util/timestamp: the current (logical) time
timestamp == clock

\* ------------------------------------------------------------------ shares
OwnerShare(t) == [accessed |-> t, created |-> t, name |-> "Owner", role |-> "owner"]
\* a value a client may write under a key of the permissions document
ClientShares ==
    [accessed : {MaxClock}, created : {0}, name : Names, role : Roles]
\* a key set to an empty value (line 157 reads it as no clientShare)
EmptyShare == [accessed |-> 0, created |-> 0, name |-> "", role |-> ""]

\* ------------------------------------------------------------------ Init
NoBind == [pc |-> "idle", db |-> NoHandle, cursorDb |-> NoHandle, docPersisted |-> {}, readOk |-> FALSE]
NoController == [pc |-> "off", cursor |-> 0, cursorDb |-> NoHandle]

\* The state once the server listens: the permissions document holds what the
\* permissions store held (line 233), the stores hold what earlier runs persisted
InitOn(permissions, stored, content) ==
    /\ permissionsServerDoc = permissions
    /\ permissionsClientMap = [t \in Tenants |-> EmptyMap]
    /\ observed = [t \in Tenants |-> FALSE]
    /\ clock = 0
    /\ authed = {}
    /\ documents = {}
    /\ connected = [d \in DocumentNames |-> 0]
    /\ authResult = [token |-> "", documentName |-> <<>>, result |-> "none"]
    /\ ydoc = [d \in BindNames |-> {}]
    /\ handler = [d \in BindNames |-> NoHandle]
    /\ bind = [d \in BindNames |-> NoBind]
    /\ persisted = stored
    /\ cursorDisk = [t \in Tenants |-> NoCursor]
    /\ ldbThoughtspaces = [t \in Tenants |-> IF t \in content THEN 1 ELSE NoHandle]
    /\ ldbDoclogs = [t \in Tenants |-> NoHandle]
    /\ ldbReplicationCursors = [t \in Tenants |-> NoHandle]
    /\ handleGen = [k \in Tenants \X StoreKinds |->
                        IF k[1] \in content /\ k[2] = "content" THEN 1 ELSE 0]
    /\ handleOpen = {<<t, "content", 1>> : t \in content}
    /\ closing = [t \in Tenants |-> FALSE]
    /\ controller = [t \in Tenants |-> NoController]
    /\ deliveries = [t \in Tenants |-> [n \in 1..MaxLog |-> 0]]
    /\ logSeq = [t \in Tenants |-> 0]
    /\ ioOnDestroyed = FALSE
    /\ console = {}
    /\ sigint = FALSE

NoPermissions == [t \in Tenants |-> EmptyMap]

\* line 233 has called bindState for the permissions document; the server does not listen
Booting(disk) ==
    /\ startup = [pc |-> "getYDoc", listening |-> FALSE, docPersisted |-> NoPermissions]
    /\ permissionsDisk = disk

\* the permissions document is bound and the server listens (lines 282-285 have run)
Serving(disk) ==
    /\ startup = [pc |-> "synced", listening |-> TRUE, docPersisted |-> disk]
    /\ permissionsDisk = disk

\* A first start: nothing persisted
Init == InitOn(NoPermissions, [d \in BindNames |-> {}], {}) /\ Booting(NoPermissions)

\* ------------------------------------------------------------ startup
\* Y.applyUpdate on the permissions document: the shares of other join those of doc
MergePermissions(doc, other) ==
    [t \in Tenants |->
        [k \in DOMAIN doc[t] \cup DOMAIN other[t] |->
            IF k \in DOMAIN doc[t] THEN doc[t][k] ELSE other[t][k]]]

\* lines 79-81 for the permissions document: once bindState has subscribed, every change
\* of the document is appended to ldbPermissions
StorePermissions(doc) == IF startup.pc = "synced" THEN doc ELSE permissionsDisk

\* line 75 of the call of line 233: the persisted permissions are read
SyncGetYDoc ==
    /\ startup.pc = "getYDoc"
    /\ startup' = [startup EXCEPT !.pc = "encode", !.docPersisted = permissionsDisk]
    /\ UNCHANGED <<permVars, connVars, authResult, docVars, diskVars, registryVars, replVars>>
    /\ UNCHANGED <<ioOnDestroyed, permissionsDisk, sigint>>
    /\ UNCHANGED console

\* lines 76-77: the document's state is written to ldbPermissions
SyncStoreUpdate ==
    /\ startup.pc = "encode"
    /\ startup' = [startup EXCEPT !.pc = "storeUpdate"]
    /\ permissionsDisk' = MergePermissions(permissionsServerDoc, permissionsDisk)
    /\ UNCHANGED <<permVars, connVars, authResult, docVars, diskVars, registryVars, replVars>>
    /\ UNCHANGED <<ioOnDestroyed, sigint>>
    /\ UNCHANGED console

\* lines 78-81: what was persisted is merged into the document; updates are stored from now
SyncSubscribe ==
    /\ startup.pc = "storeUpdate"
    /\ startup' = [startup EXCEPT !.pc = "synced"]
    /\ permissionsServerDoc' = MergePermissions(permissionsServerDoc, startup.docPersisted)
    /\ UNCHANGED <<permissionsClientMap, observed, clock>>
    /\ UNCHANGED <<connVars, authResult, docVars, diskVars, registryVars, replVars>>
    /\ UNCHANGED <<ioOnDestroyed, permissionsDisk, sigint>>
    /\ UNCHANGED console

\* mutant of CanListen: the server listens without waiting for permissionsServerSynced
CanListen_AtOnce(pc) == TRUE

\* line 282: the callback runs when permissionsServerSynced has resolved
CanListen(pc) == pc = "synced"

\* lines 282-285: server.listen()
Listen ==
    /\ CanListen(startup.pc)
    /\ ~startup.listening
    /\ startup' = [startup EXCEPT !.listening = TRUE]
    /\ UNCHANGED <<permVars, connVars, authResult, docVars, diskVars, registryVars, replVars>>
    /\ UNCHANGED <<ioOnDestroyed, permissionsDisk, sigint>>
    /\ UNCHANGED console

\* the process starts: lines 232-233 and 280-285
Startup == SyncGetYDoc \/ SyncStoreUpdate \/ SyncSubscribe \/ Listen

\* ------------------------------------------------------------ onAuthenticate
\* mutant of AssignOwner: the owner is never installed
AssignOwner_NoInsert(permissionsServerMap, token) == permissionsServerMap

\* mutant of AssignOwner: a token with no share is installed, whatever the map holds
AssignOwner_WhenAbsent(permissionsServerMap, token) ==
    IF ~MapHas(permissionsServerMap, token)
    THEN MapSet(permissionsServerMap, token,
                [accessed |-> timestamp, created |-> timestamp, name |-> "Owner", role |-> "owner"])
    ELSE permissionsServerMap

\* lines 92-96: an empty map gets the token as owner
AssignOwner(permissionsServerMap, token) ==
    IF MapSize(permissionsServerMap) = 0
    THEN MapSet(permissionsServerMap, token,
                [accessed |-> timestamp, created |-> timestamp, name |-> "Owner", role |-> "owner"])
    ELSE permissionsServerMap

\* mutant of IsOwner: any share of the token passes, whatever its role
IsOwner_AnyShare(permissionsServerMap, token) == MapHas(permissionsServerMap, token)

\* line 100: the token's share has role owner
IsOwner(permissionsServerMap, token) ==
    MapHas(permissionsServerMap, token) /\ permissionsServerMap[token].role = "owner"

onAuthenticate(token, documentName) ==
    LET tsid == parseDocumentName(documentName).tsid
        permissionsServerMap == AssignOwner(permissionsServerDoc[tsid], token)
    IN  /\ startup.listening
        /\ Cardinality(authed) < MaxPending
        /\ permissionsServerDoc' = [permissionsServerDoc EXCEPT ![tsid] = permissionsServerMap]
        /\ permissionsDisk' = StorePermissions(permissionsServerDoc')
        /\ IF IsOwner(permissionsServerMap, token)
           THEN /\ authed' = authed \cup {<<token, documentName>>}
                /\ authResult' = [token |-> token, documentName |-> documentName, result |-> "ok"]
           ELSE /\ authed' = authed
                /\ authResult' = [token |-> token, documentName |-> documentName, result |-> "Not authorized"]
        /\ UNCHANGED <<permissionsClientMap, observed, clock, documents, connected>>
        /\ UNCHANGED <<docVars, diskVars, registryVars, replVars, ioOnDestroyed>>
        /\ UNCHANGED <<startup, sigint>>
        /\ UNCHANGED console

\* the clock timestamp() reads advances between handlers
Tick ==
    /\ clock < MaxClock
    /\ clock' = clock + 1
    /\ UNCHANGED <<permissionsServerDoc, permissionsClientMap, observed>>
    /\ UNCHANGED <<connVars, authResult, docVars, diskVars, registryVars, replVars, ioOnDestroyed>>
    /\ UNCHANGED startVars
    /\ UNCHANGED console

\* ------------------------------------------------------------ store handles
IsOpen(tsid, kind, h) == <<tsid, kind, h>> \in handleOpen

\* lines 168-172, 175-179, 182-186: the registry's handle, or a new one
OpenOrReuse_AlwaysNew(registered, gen) == gen + 1
OpenOrReuse(registered, gen) == IF registered # NoHandle THEN registered ELSE gen + 1

\* ------------------------------------------------------------ onLoadDocument
\* mutant of Permitted: the hook goes on for any authenticated context
Permitted_Always(permissionsServerMap, token) == TRUE

\* lines 122-124: the hook goes on only for an owner
Permitted(permissionsServerMap, token) ==
    MapHas(permissionsServerMap, token) /\ permissionsServerMap[token].role = "owner"

\* line 36
getYDoc(docs, name) == name \in docs

\* lines 141-143: copy server permissions to client
CopyToClient(permissionsServerMap, clientMap) ==
    [k \in (DOMAIN clientMap) \cup (DOMAIN permissionsServerMap) |->
        IF k \in DOMAIN permissionsServerMap THEN permissionsServerMap[k] ELSE clientMap[k]]

\* line 74, up to the first await: db.getYDoc is issued
StartBind(db, cursorDb) ==
    [pc |-> "getYDoc", db |-> db, cursorDb |-> cursorDb, docPersisted |-> {}, readOk |-> FALSE]

onLoadDocument(token, documentName, docs) ==
    LET tsid == parseDocumentName(documentName).tsid
        type == parseDocumentName(documentName).type
        content == OpenOrReuse(ldbThoughtspaces[tsid], handleGen[<<tsid, "content">>])
        log == OpenOrReuse(ldbDoclogs[tsid], handleGen[<<tsid, "log">>])
        cursor == OpenOrReuse(ldbReplicationCursors[tsid], handleGen[<<tsid, "cursor">>])
    IN  IF ~Permitted(permissionsServerDoc[tsid], token)
        THEN UNCHANGED <<permissionsClientMap, observed, bind, registryVars>>
        ELSE CASE type = "permissions" ->
                    /\ IF getYDoc(docs, encodePermissionsDocumentName(tsid))
                       THEN /\ permissionsClientMap' =
                                 [permissionsClientMap EXCEPT
                                    ![tsid] = CopyToClient(permissionsServerDoc[tsid], @)]
                            /\ observed' = [observed EXCEPT ![tsid] = TRUE]
                       ELSE UNCHANGED <<permissionsClientMap, observed>>
                    /\ UNCHANGED <<bind, registryVars>>
               [] type \in {"thought", "lexeme"} ->
                    /\ content <= MaxGen
                    /\ ldbThoughtspaces' = [ldbThoughtspaces EXCEPT ![tsid] = content]
                    /\ handleGen' = [handleGen EXCEPT ![<<tsid, "content">>] =
                                        IF content > @ THEN content ELSE @]
                    /\ handleOpen' = IF content # ldbThoughtspaces[tsid]
                                     THEN handleOpen \cup {<<tsid, "content", content>>}
                                     ELSE handleOpen
                    /\ bind' = [bind EXCEPT ![documentName] = StartBind(content, NoHandle)]
                    /\ UNCHANGED <<permissionsClientMap, observed, ldbDoclogs,
                                   ldbReplicationCursors, closing>>
               [] type = "doclog" ->
                    /\ log <= MaxGen
                    /\ cursor <= MaxGen
                    /\ ldbDoclogs' = [ldbDoclogs EXCEPT ![tsid] = log]
                    /\ ldbReplicationCursors' = [ldbReplicationCursors EXCEPT ![tsid] = cursor]
                    /\ handleGen' = [handleGen EXCEPT
                                        ![<<tsid, "log">>] = IF log > @ THEN log ELSE @,
                                        ![<<tsid, "cursor">>] = IF cursor > @ THEN cursor ELSE @]
                    /\ handleOpen' = handleOpen
                          \cup (IF log # ldbDoclogs[tsid]
                                THEN {<<tsid, "log", log>>} ELSE {})
                          \cup (IF cursor # ldbReplicationCursors[tsid]
                                THEN {<<tsid, "cursor", cursor>>} ELSE {})
                    /\ bind' = [bind EXCEPT ![documentName] = StartBind(log, cursor)]
                    /\ UNCHANGED <<permissionsClientMap, observed, ldbThoughtspaces, closing>>
               [] OTHER ->
                    UNCHANGED <<permissionsClientMap, observed, bind, registryVars>>

\* lines 224-226: a permitted load of a document of no known type is reported
LoadDiagnostics_Silent(token, documentName) == {}
LoadDiagnostics(token, documentName) ==
    IF /\ Permitted(permissionsServerDoc[parseDocumentName(documentName).tsid], token)
       /\ parseDocumentName(documentName).type
             \notin {"permissions", "thought", "lexeme", "doclog"}
    THEN {"Unrecognized doc type"}
    ELSE {}

\* The server creates the document of a new connection, registers it and calls the hook.
\* The connection is established when the hook's promise resolves: at once when the hook
\* returns without awaiting, at the end of bindState otherwise
LoadDocument(token, documentName) ==
    /\ startup.listening
    /\ <<token, documentName>> \in authed
    /\ documentName \notin documents
    /\ authed' = authed \ {<<token, documentName>>}
    /\ documents' = documents \cup {documentName}
    /\ onLoadDocument(token, documentName, documents \cup {documentName})
    /\ connected' = [connected EXCEPT ![documentName] =
                        IF documentName \in BindNames /\ bind'[documentName].pc # "idle"
                        THEN 0 ELSE 1]
    /\ UNCHANGED <<permissionsServerDoc, clock, authResult, ydoc, handler>>
    /\ UNCHANGED <<diskVars, replVars, ioOnDestroyed>>
    /\ UNCHANGED startVars
    /\ console' = console \cup LoadDiagnostics(token, documentName)

\* A connection to a document that is already live joins it: no hook runs
JoinDocument(token, documentName) ==
    /\ startup.listening
    /\ <<token, documentName>> \in authed
    /\ documentName \in documents
    /\ connected[documentName] + (IF documentName \in BindNames /\ bind[documentName].pc # "idle"
                                  THEN 1 ELSE 0) < MaxConns
    /\ authed' = authed \ {<<token, documentName>>}
    /\ connected' = [connected EXCEPT ![documentName] = @ + 1]
    /\ UNCHANGED <<permVars, documents, authResult>>
    /\ UNCHANGED <<docVars, diskVars, registryVars, replVars, ioOnDestroyed>>
    /\ UNCHANGED startVars
    /\ UNCHANGED console

\* ------------------------------------------------------------ persistence
StoreKind(name) == IF parseDocumentName(name).type = "doclog" THEN "log" ELSE "content"
HandleOpenFor(name, h) == IsOpen(parseDocumentName(name).tsid, StoreKind(name), h)

\* LeveldbPersistence.storeUpdate: append updates to what is stored under the name
storeUpdate(store, docName, updates) == [store EXCEPT ![docName] = @ \cup updates]
\* LeveldbPersistence.clearDocument: drop what is stored under the name
clearDocument_Toggle(store, docName) ==
    [store EXCEPT ![docName] = IF @ = {} THEN ContentUpdates ELSE {}]
clearDocument(store, docName) == [store EXCEPT ![docName] = {}]
\* Y.applyUpdate: merge updates into a document
applyUpdate_Drop(doc, updates) == doc
applyUpdate(doc, updates) == doc \cup updates

\* ------------------------------------------------------------ bindState
\* line 75: db.getYDoc resolves with the state persisted under docName
BindGetYDoc(docName) ==
    /\ bind[docName].pc = "getYDoc"
    /\ bind' = [bind EXCEPT ![docName] =
                  [@ EXCEPT !.pc = "encode",
                            !.readOk = HandleOpenFor(docName, bind[docName].db),
                            !.docPersisted = IF HandleOpenFor(docName, bind[docName].db)
                                             THEN persisted[docName] ELSE {}]]
    /\ UNCHANGED <<permVars, connVars, authResult, ydoc, handler>>
    /\ UNCHANGED <<diskVars, registryVars, replVars, ioOnDestroyed>>
    /\ UNCHANGED startVars
    /\ UNCHANGED console

\* lines 76-77: the document's current state is encoded and written to the store
BindStoreUpdate(docName) ==
    /\ bind[docName].pc = "encode"
    /\ bind' = [bind EXCEPT ![docName].pc = "storeUpdate"]
    /\ IF HandleOpenFor(docName, bind[docName].db)
       THEN /\ persisted' = storeUpdate(persisted, docName, ydoc[docName])
            /\ UNCHANGED ioOnDestroyed
       ELSE /\ ioOnDestroyed' = TRUE
            /\ UNCHANGED persisted
    /\ UNCHANGED <<permVars, connVars, authResult, ydoc, handler>>
    /\ UNCHANGED <<cursorDisk, registryVars, replVars>>
    /\ UNCHANGED startVars
    /\ UNCHANGED console

\* lines 191-223: the controller is constructed and asks storage for its cursor
AttachController(cursorDb) == [pc |-> "getItem", cursor |-> 0, cursorDb |-> cursorDb]

\* lines 78-81 (and 191 for a doclog): merge what was persisted, subscribe to updates; the
\* hook resolves and the connection that loaded the document is established.
\* A failed getYDoc leaves nothing to encode at line 78: bindState rejects, and the
\* server drops the document with its connections.
BindSubscribe(docName) ==
    LET b == bind[docName]
        tsid == parseDocumentName(docName).tsid
    IN  /\ b.pc = "storeUpdate"
        /\ bind' = [bind EXCEPT ![docName] = NoBind]
        /\ IF b.readOk
           THEN /\ ydoc' = [ydoc EXCEPT ![docName] = applyUpdate(@, b.docPersisted)]
                /\ handler' = [handler EXCEPT ![docName] = b.db]
                /\ controller' = IF parseDocumentName(docName).type = "doclog"
                                 THEN [controller EXCEPT ![tsid] = AttachController(b.cursorDb)]
                                 ELSE controller
                /\ connected' = [connected EXCEPT ![docName] = @ + 1]
                /\ UNCHANGED documents
           ELSE /\ ydoc' = [ydoc EXCEPT ![docName] = {}]
                /\ connected' = [connected EXCEPT ![docName] = 0]
                /\ documents' = documents \ {docName}
                /\ UNCHANGED <<handler, controller>>
        /\ UNCHANGED <<permVars, authed, authResult, diskVars, registryVars>>
        /\ UNCHANGED <<deliveries, logSeq, ioOnDestroyed>>
        /\ UNCHANGED startVars
        /\ UNCHANGED console

\* ------------------------------------------------------------ document edits
EntryShapes ==
    [action : {DocLogAction.Delete, DocLogAction.Update}, type : {"thought"}, id : ThoughtIds]
        \cup [action : {DocLogAction.Delete}, type : {"lexeme"}, id : LexemeKeys]
Entry(n, shape) == [n |-> n, action |-> shape.action, type |-> shape.type, id |-> shape.id]

\* lines 79-81: the 'update' handler appends the update to the store it was bound to
OnUpdate(docName, update) ==
    IF handler[docName] = NoHandle
    THEN UNCHANGED <<persisted, ioOnDestroyed>>
    ELSE IF HandleOpenFor(docName, handler[docName])
         THEN /\ persisted' = storeUpdate(persisted, docName, {update})
              /\ UNCHANGED ioOnDestroyed
         ELSE /\ ioOnDestroyed' = TRUE
              /\ UNCHANGED persisted

\* A connected client edits a thought or lexeme document
Edit(docName, update) ==
    /\ parseDocumentName(docName).type \in {"thought", "lexeme"}
    /\ docName \in documents
    /\ connected[docName] > 0
    /\ update \notin ydoc[docName]
    /\ ydoc' = [ydoc EXCEPT ![docName] = applyUpdate(@, {update})]
    /\ OnUpdate(docName, update)
    /\ UNCHANGED <<permVars, connVars, authResult, handler, bind>>
    /\ UNCHANGED <<cursorDisk, registryVars, replVars>>
    /\ UNCHANGED startVars
    /\ UNCHANGED console

\* A connected client appends an entry to the doclog
AppendEntry(tsid, shape) ==
    LET docName == encodeDocLogDocumentName(tsid)
        entry == Entry(logSeq[tsid] + 1, shape)
    IN  /\ docName \in documents
        /\ connected[docName] > 0
        /\ logSeq[tsid] < MaxLog
        /\ logSeq' = [logSeq EXCEPT ![tsid] = @ + 1]
        /\ ydoc' = [ydoc EXCEPT ![docName] = applyUpdate(@, {entry})]
        /\ OnUpdate(docName, entry)
        /\ UNCHANGED <<permVars, connVars, authResult, handler, bind>>
        /\ UNCHANGED <<cursorDisk, registryVars>>
        /\ UNCHANGED <<controller, deliveries>>
        /\ UNCHANGED startVars
        /\ UNCHANGED console

\* ------------------------------------------------ permission reconciliation
\* lines 148-165: the observer's work for one changed key of the client map
Reconcile_AlwaysCopy(permissionsServerMap, clientMap, key, action) ==
    IF action = "delete"
    THEN MapDelete(permissionsServerMap, key)
    ELSE IF ~MapHas(clientMap, key) \/ clientMap[key] = EmptyShare
         THEN permissionsServerMap
         ELSE MapSet(permissionsServerMap, key, clientMap[key])
Reconcile(permissionsServerMap, clientMap, key, action) ==
    IF action = "delete"
    THEN MapDelete(permissionsServerMap, key)
    ELSE IF ~MapHas(clientMap, key) \/ clientMap[key] = EmptyShare
         THEN permissionsServerMap
         ELSE IF \/ ~MapHas(permissionsServerMap, key)
                 \/ clientMap[key].name # permissionsServerMap[key].name
                 \/ clientMap[key].role # permissionsServerMap[key].role
              THEN MapSet(permissionsServerMap, key, clientMap[key])
              ELSE permissionsServerMap

ClientChange(tsid, key, action, clientMap) ==
    /\ encodePermissionsDocumentName(tsid) \in documents
    /\ connected[encodePermissionsDocumentName(tsid)] > 0
    /\ permissionsClientMap' = [permissionsClientMap EXCEPT ![tsid] = clientMap]
    /\ permissionsServerDoc' =
          IF observed[tsid]
          THEN [permissionsServerDoc EXCEPT ![tsid] = Reconcile(@, clientMap, key, action)]
          ELSE permissionsServerDoc
    /\ permissionsDisk' = StorePermissions(permissionsServerDoc')
    /\ UNCHANGED <<observed, clock, connVars, authResult>>
    /\ UNCHANGED <<docVars, diskVars, registryVars, replVars, ioOnDestroyed>>
    /\ UNCHANGED <<startup, sigint>>
    /\ UNCHANGED console

\* A connected client sets a key of the permissions document
ClientSet(tsid, key, share) ==
    ClientChange(tsid, key,
                 IF MapHas(permissionsClientMap[tsid], key) THEN "update" ELSE "add",
                 MapSet(permissionsClientMap[tsid], key, share))

\* A connected client removes a key of the permissions document
ClientDelete(tsid, key) ==
    /\ MapHas(permissionsClientMap[tsid], key)
    /\ ClientChange(tsid, key, "delete", MapDelete(permissionsClientMap[tsid], key))

\* ------------------------------------------------------------ replication
\* the k-th entry of the log, in log order
NthEntry(log, k) == CHOOSE e \in log : Cardinality({x \in log : x.n <= e.n}) = k

\* lines 209-218: the persisted cursor, or null when the read fails
getItem_SkipsFirst(tsid, cursorDb) ==
    IF IsOpen(tsid, "cursor", cursorDb) /\ cursorDisk[tsid] # NoCursor THEN cursorDisk[tsid] ELSE 1
getItem(tsid, cursorDb) ==
    IF IsOpen(tsid, "cursor", cursorDb) THEN cursorDisk[tsid] ELSE NoCursor

\* the controller starts from the persisted cursor; no cursor is the start of the log
ControllerStart(tsid) ==
    LET c == controller[tsid]
        results == getItem(tsid, c.cursorDb)
    IN  /\ c.pc = "getItem"
        /\ controller' = [controller EXCEPT ![tsid] =
                             [@ EXCEPT !.pc = "run",
                                       !.cursor = IF results = NoCursor THEN 0 ELSE results]]
        /\ UNCHANGED <<permVars, connVars, authResult, docVars, diskVars, registryVars>>
        /\ UNCHANGED <<deliveries, logSeq, ioOnDestroyed>>
        /\ UNCHANGED startVars
        /\ UNCHANGED console

\* lines 195-196: the storage key of the entry's entity
EntryName(tsid, entry) ==
    IF entry.type = "thought"
    THEN encodeThoughtDocumentName(tsid, entry.id)
    ELSE encodeLexemeDocumentName(tsid, entry.id)

\* lines 198-203: what next leaves in the content store
NextEffect(store, tsid, entry, db) ==
    IF entry.action = DocLogAction.Delete /\ db # NoHandle /\ IsOpen(tsid, "content", db)
    THEN clearDocument(store, EntryName(tsid, entry))
    ELSE store

\* lines 199-202: a Delete with no content handle registered is reported
NextDiagnostics(tsid, entry, db) ==
    IF entry.action = DocLogAction.Delete /\ db = NoHandle
    THEN {"LeveldbPersistence instance missing"}
    ELSE {}

\* lines 219-221: the cursor written through the handle captured at load
setItem(tsid, cursorDb, value) ==
    IF IsOpen(tsid, "cursor", cursorDb) THEN [cursorDisk EXCEPT ![tsid] = value] ELSE cursorDisk

\* The controller hands the next unprocessed entry to next (lines 193-205) and
\* persists the advanced cursor (lines 219-221)
ReplicationStep(tsid) ==
    LET c == controller[tsid]
        docName == encodeDocLogDocumentName(tsid)
        entry == NthEntry(ydoc[docName], c.cursor + 1)
        db == ldbThoughtspaces[tsid]
        isDelete == entry.action = DocLogAction.Delete
    IN  /\ c.pc = "run"
        /\ c.cursor < Cardinality(ydoc[docName])
        /\ deliveries' = [deliveries EXCEPT ![tsid][entry.n] = IF @ < 2 THEN @ + 1 ELSE @]
        \* line 197: document.destroy() drops the document's 'update' handlers
        /\ handler' = IF isDelete THEN [handler EXCEPT ![docName] = NoHandle] ELSE handler
        /\ persisted' = NextEffect(persisted, tsid, entry, db)
        /\ cursorDisk' = setItem(tsid, c.cursorDb, c.cursor + 1)
        /\ controller' = [controller EXCEPT ![tsid].cursor = @ + 1]
        /\ ioOnDestroyed' = (\/ ioOnDestroyed
                             \/ ~IsOpen(tsid, "cursor", c.cursorDb)
                             \/ (isDelete /\ db # NoHandle /\ ~IsOpen(tsid, "content", db)))
        /\ UNCHANGED <<permVars, connVars, authResult, ydoc, bind, registryVars, logSeq>>
        /\ UNCHANGED startVars
        /\ console' = console \cup NextDiagnostics(tsid, entry, db)

\* ------------------------------------------------------------ onDisconnect
\* lines 245-262, up to the await of replicationCursorDb.close()
onDisconnect_AnyType(documentName) ==
    LET tsid == parseDocumentName(documentName).tsid
    IN  /\ ldbThoughtspaces' = [ldbThoughtspaces EXCEPT ![tsid] = NoHandle]
        /\ ldbDoclogs' = [ldbDoclogs EXCEPT ![tsid] = NoHandle]
        /\ handleOpen' = handleOpen \
              {<<tsid, "content", ldbThoughtspaces[tsid]>>,
               <<tsid, "log", ldbDoclogs[tsid]>>,
               <<tsid, "cursor", ldbReplicationCursors[tsid]>>}
        /\ closing' = [closing EXCEPT
                          ![tsid] = @ \/ ldbReplicationCursors[tsid] # NoHandle]
        /\ UNCHANGED <<ldbReplicationCursors, handleGen>>
onDisconnect_AllTenants(documentName) ==
    LET tsid == parseDocumentName(documentName).tsid
    IN  IF parseDocumentName(documentName).type = "doclog"
        THEN /\ ldbThoughtspaces' = [t \in Tenants |-> NoHandle]
             /\ ldbDoclogs' = [t \in Tenants |-> NoHandle]
             /\ handleOpen' = {h \in handleOpen : h[2] = "cursor" /\ h[1] # tsid}
             /\ closing' = [closing EXCEPT
                               ![tsid] = @ \/ ldbReplicationCursors[tsid] # NoHandle]
             /\ UNCHANGED <<ldbReplicationCursors, handleGen>>
        ELSE UNCHANGED registryVars
onDisconnect_KeepsContent(documentName) ==
    LET tsid == parseDocumentName(documentName).tsid
    IN  IF parseDocumentName(documentName).type = "doclog"
        THEN /\ ldbDoclogs' = [ldbDoclogs EXCEPT ![tsid] = NoHandle]
             /\ handleOpen' = handleOpen \
                   {<<tsid, "log", ldbDoclogs[tsid]>>,
                    <<tsid, "cursor", ldbReplicationCursors[tsid]>>}
             /\ closing' = [closing EXCEPT
                               ![tsid] = @ \/ ldbReplicationCursors[tsid] # NoHandle]
             /\ UNCHANGED <<ldbThoughtspaces, ldbReplicationCursors, handleGen>>
        ELSE UNCHANGED registryVars
onDisconnect(documentName) ==
    LET tsid == parseDocumentName(documentName).tsid
    IN  IF parseDocumentName(documentName).type = "doclog"
        THEN /\ ldbThoughtspaces' = [ldbThoughtspaces EXCEPT ![tsid] = NoHandle]
             /\ ldbDoclogs' = [ldbDoclogs EXCEPT ![tsid] = NoHandle]
             /\ handleOpen' = handleOpen \
                   {<<tsid, "content", ldbThoughtspaces[tsid]>>,
                    <<tsid, "log", ldbDoclogs[tsid]>>,
                    <<tsid, "cursor", ldbReplicationCursors[tsid]>>}
             /\ closing' = [closing EXCEPT
                               ![tsid] = @ \/ ldbReplicationCursors[tsid] # NoHandle]
             /\ UNCHANGED <<ldbReplicationCursors, handleGen>>
        ELSE UNCHANGED registryVars

\* the server drops a document when its last connection has closed
Unload(documentName, last) ==
    LET tsid == parseDocumentName(documentName).tsid
        type == parseDocumentName(documentName).type
    IN  /\ documents' = IF last THEN documents \ {documentName} ELSE documents
        /\ IF last /\ documentName \in BindNames
           THEN /\ ydoc' = [ydoc EXCEPT ![documentName] = {}]
                /\ handler' = [handler EXCEPT ![documentName] = NoHandle]
           ELSE UNCHANGED <<ydoc, handler>>
        /\ controller' = IF last /\ type = "doclog"
                         THEN [controller EXCEPT ![tsid] = NoController] ELSE controller
        /\ IF last /\ type = "permissions"
           THEN /\ permissionsClientMap' = [permissionsClientMap EXCEPT ![tsid] = EmptyMap]
                /\ observed' = [observed EXCEPT ![tsid] = FALSE]
           ELSE UNCHANGED <<permissionsClientMap, observed>>

\* A connection closes: the onDisconnect hook runs, then the document is dropped if unused
Disconnect(documentName) ==
    /\ connected[documentName] > 0
    \* a document being loaded is kept for the connection that loads it
    /\ Unload(documentName,
              /\ connected[documentName] = 1
              /\ ~(documentName \in BindNames /\ bind[documentName].pc # "idle"))
    /\ connected' = [connected EXCEPT ![documentName] = @ - 1]
    /\ onDisconnect(documentName)
    /\ UNCHANGED <<permissionsServerDoc, clock, authed, authResult, bind, diskVars>>
    /\ UNCHANGED <<deliveries, logSeq, ioOnDestroyed>>
    /\ UNCHANGED startVars
    /\ UNCHANGED console

\* lines 259-260: close() has resolved; the cursor registry entry is deleted
CloseResolved(tsid) ==
    /\ closing[tsid]
    /\ closing' = [closing EXCEPT ![tsid] = FALSE]
    /\ ldbReplicationCursors' = [ldbReplicationCursors EXCEPT ![tsid] = NoHandle]
    /\ UNCHANGED <<ldbThoughtspaces, ldbDoclogs, handleGen, handleOpen>>
    /\ UNCHANGED <<permVars, connVars, authResult, docVars, diskVars, replVars, ioOnDestroyed>>
    /\ UNCHANGED startVars
    /\ UNCHANGED console

\* ------------------------------------------------------------ shutdown
\* lines 268-278: every handle the registries hold is destroyed or closed; the entries
\* stay in the registries, and the handler returns
Sigint ==
    /\ sigint' = TRUE
    /\ handleOpen' = handleOpen \
          ({<<tsid, "content", ldbThoughtspaces[tsid]>> : tsid \in Tenants}
             \cup {<<tsid, "log", ldbDoclogs[tsid]>> : tsid \in Tenants}
             \cup {<<tsid, "cursor", ldbReplicationCursors[tsid]>> : tsid \in Tenants})
    /\ UNCHANGED <<ldbThoughtspaces, ldbDoclogs, ldbReplicationCursors, handleGen, closing>>
    /\ UNCHANGED <<permVars, connVars, authResult, docVars, diskVars, replVars, ioOnDestroyed>>
    /\ UNCHANGED <<startup, permissionsDisk>>
    /\ UNCHANGED console

\* ------------------------------------------------------------ specification
\* connections of the given tokens to the given documents
Connections(tokens, names) ==
    \/ \E token \in tokens, documentName \in names :
          \/ onAuthenticate(token, documentName)
          \/ LoadDocument(token, documentName)
          \/ JoinDocument(token, documentName)
    \/ \E documentName \in names : Disconnect(documentName)

\* clients editing the permissions document of tenant tsid
PermissionEdits(tsid, keys, shares) ==
    \E key \in keys :
        \/ \E share \in shares : ClientSet(tsid, key, share)
        \/ ClientDelete(tsid, key)

\* bindState calls in flight
BindSteps(names) ==
    \E docName \in names \cap BindNames :
        \/ BindGetYDoc(docName)
        \/ BindStoreUpdate(docName)
        \/ BindSubscribe(docName)

\* clients editing thought and lexeme documents
Edits(names, updates) ==
    \E docName \in names \cap BindNames, update \in updates : Edit(docName, update)

\* the doclog of tenant tsid and its replication controller
Replication(tsid, shapes) ==
    \/ \E shape \in shapes : AppendEntry(tsid, shape)
    \/ ControllerStart(tsid)
    \/ ReplicationStep(tsid)

\* The whole server, one tenant
Next ==
    \/ Connections(Tokens, DocumentNamesOf({"ts1"}))
    \/ PermissionEdits("ts1", Tokens, ClientShares \cup {EmptyShare})
    \/ BindSteps(DocumentNamesOf({"ts1"}))
    \/ Edits(DocumentNamesOf({"ts1"}), ContentUpdates)
    \/ Replication("ts1", EntryShapes)
    \/ CloseResolved("ts1")
    \/ Tick
    \/ Startup
    \/ Sigint

Spec == Init /\ [][Next]_vars

\* The permission store: connections to the permissions document and its edits
NextPermissions ==
    \/ Connections(Tokens, PermissionsNamesOf({"ts1"}))
    \/ PermissionEdits("ts1", Tokens, ClientShares \cup {EmptyShare})
    \/ Tick
    \/ Startup

SpecPermissions == Init /\ [][NextPermissions]_vars

\* A restart: ldbPermissions may hold the owner an earlier run recorded for ts1
InitRestart ==
    \E disk \in {NoPermissions,
                 [t \in Tenants |-> IF t = "ts1" THEN MapSet(EmptyMap, "abc123", OwnerShare(0))
                                    ELSE EmptyMap]} :
        InitOn(NoPermissions, [d \in BindNames |-> {}], {}) /\ Booting(disk)

SpecRestart == InitRestart /\ [][NextPermissions]_vars

StorageNames == {encodeThoughtDocumentName("ts1", "T1"), encodeDocLogDocumentName("ts1")}
ThoughtShapes == {sh \in EntryShapes : sh.type = "thought"}
DeleteShapes == {sh \in EntryShapes : sh.action = DocLogAction.Delete}

\* Sessions and persistence of one owner: a thought document and the doclog, bound,
\* edited, disconnected and reconnected
NextBinding ==
    \/ Connections({"abc123"}, StorageNames)
    \/ BindSteps(StorageNames)
    \/ Edits(StorageNames, {"u1"})
    \/ ControllerStart("ts1")
    \/ CloseResolved("ts1")
    \/ Startup

SpecBinding == Init /\ [][NextBinding]_vars

\* The server at work: tenant ts1 has its owner, its thought document may have
\* persisted content, and the content store of ts1 may be open (a thought document was
\* loaded and its connection closed: a disconnect that is not the doclog's leaves the
\* registries alone)
InitServing ==
    \E stored \in SUBSET {"u1"}, content \in SUBSET {"ts1"} :
        InitOn([t \in Tenants |-> IF t = "ts1" THEN MapSet(EmptyMap, "abc123", OwnerShare(0))
                                  ELSE EmptyMap],
               [d \in BindNames |-> IF d = encodeThoughtDocumentName("ts1", "T1")
                                    THEN stored ELSE {}],
               content) /\ Serving(permissionsServerDoc)

\* Replication of the doclog of ts1 into its content store
NextReplication ==
    \/ Connections({"abc123"}, DocLogNamesOf({"ts1"}))
    \/ BindSteps(DocLogNamesOf({"ts1"}))
    \/ Replication("ts1", ThoughtShapes)
    \/ CloseResolved("ts1")

SpecReplication == InitServing /\ [][NextReplication]_vars

\* Store I/O completes and the controller runs whenever it has an entry to hand over;
\* a client that went away comes back. Appends and disconnects are the clients' choice
FairReplication ==
    /\ SpecReplication
    /\ \A docName \in DocLogNamesOf({"ts1"}) :
          /\ WF_vars(BindGetYDoc(docName))
          /\ WF_vars(BindStoreUpdate(docName))
          /\ WF_vars(BindSubscribe(docName))
          /\ SF_vars(onAuthenticate("abc123", docName))
          /\ SF_vars(LoadDocument("abc123", docName))
    /\ WF_vars(CloseResolved("ts1"))
    /\ SF_vars(ControllerStart("ts1"))
    /\ SF_vars(ReplicationStep("ts1"))

\* Sessions of every document kind while the role of their token changes: connections
\* of abc123 to the permissions, thought, lexeme and doclog documents of ts1, and clients
\* editing the share of abc123 in the permissions document. The gate is evaluated at
\* the entry of the load hook, so the binds the hook starts are left in flight
GateNames ==
    {encodePermissionsDocumentName("ts1"), encodeThoughtDocumentName("ts1", "T1"),
     encodeLexemeDocumentName("ts1", "L1"), encodeDocLogDocumentName("ts1")}
GateShares == {sh \in ClientShares : sh.name = "Guest"}

NextGate ==
    \/ Connections({"abc123"}, GateNames)
    \/ PermissionEdits("ts1", {"abc123"}, GateShares)
    \/ CloseResolved("ts1")
    \/ Startup

SpecGate == Init /\ [][NextGate]_vars

\* Two tenants side by side, each with its owner, content persisted under its thought T1
\* and its content store open: abc123 on the doclog of ts1, replicating deletes of T1,
\* and xyz789 on the permissions document of ts2, where clients edit the share of abc123
InitTenants ==
    InitOn([t \in Tenants |-> MapSet(EmptyMap, IF t = "ts1" THEN "abc123" ELSE "xyz789",
                                     OwnerShare(0))],
           [d \in BindNames |-> IF parseDocumentName(d).type = "thought" THEN {"u1"} ELSE {}],
           Tenants) /\ Serving(permissionsServerDoc)

\* one connection at a time to a document: authenticated, loaded, closed
Session(token, documentName) ==
    \/ onAuthenticate(token, documentName)
    \/ LoadDocument(token, documentName)
    \/ Disconnect(documentName)

NextTenants ==
    \/ Session("abc123", encodeDocLogDocumentName("ts1"))
    \/ BindSteps(DocLogNamesOf({"ts1"}))
    \/ Replication("ts1", DeleteShapes \cap ThoughtShapes)
    \/ CloseResolved("ts1")
    \/ Session("xyz789", encodePermissionsDocumentName("ts2"))
    \/ PermissionEdits("ts2", {"abc123"}, GateShares)

SpecTenants == InitTenants /\ [][NextTenants]_vars

\* An interrupt signal while abc123 has sessions on thought T1 and on the doclog of ts1
NextShutdown ==
    \/ Session("abc123", encodeThoughtDocumentName("ts1", "T1"))
    \/ Session("abc123", encodeDocLogDocumentName("ts1"))
    \/ BindSteps(StorageNames)
    \/ CloseResolved("ts1")
    \/ Sigint

SpecShutdown == InitServing /\ [][NextShutdown]_vars

\* Documents of a kind the server does not know next to those it does: sessions of
\* abc123 on a document of unknown kind, on thought T1 and on the permissions document
\* of ts1, while clients edit the share of abc123
KindNames ==
    UnrecognizedNamesOf({"ts1"})
        \cup {encodeThoughtDocumentName("ts1", "T1"), encodePermissionsDocumentName("ts1")}

NextKinds ==
    \/ Connections({"abc123"}, KindNames)
    \/ PermissionEdits("ts1", {"abc123"}, GateShares)
    \/ BindSteps(KindNames)

SpecKinds == InitServing /\ [][NextKinds]_vars

\* First connections: the two tokens authenticate for and connect to the permissions
\* documents of both tenants in any order; nobody edits a permissions document
NextBootstrap ==
    \/ Connections(Tokens, PermissionsNamesOf(Tenants))
    \/ Tick
    \/ Startup

SpecBootstrap == Init /\ [][NextBootstrap]_vars

\* ================================================================== claims
PermissionsName == encodePermissionsDocumentName("ts1")
HoldsOwner(tsid, token) ==
    /\ token \in DOMAIN permissionsServerDoc[tsid]
    /\ permissionsServerDoc[tsid][token].role = "owner"

\* C1: onAuthenticate(T, documentName) on a tenant whose server-side permission map is
\* empty installs a Share for T with role owner, name 'Owner' and created = accessed =
\* the current timestamp, and succeeds, returning {token: T}.
C1_BootstrapOwnership ==
    [][\A token \in Tokens, documentName \in DocumentNames :
          LET tsid == parseDocumentName(documentName).tsid
          IN  (onAuthenticate(token, documentName) /\ MapSize(permissionsServerDoc[tsid]) = 0)
                 => /\ permissionsServerDoc'[tsid] = MapSet(EmptyMap, token, OwnerShare(clock))
                    /\ <<token, documentName>> \in authed'
                    /\ authResult' = [token |-> token, documentName |-> documentName,
                                      result |-> "ok"]]_vars

\* C1 witness: abc123 bootstrapped ts1 at time 1 and holds the returned context
C1_Witness ==
    /\ permissionsServerDoc["ts1"] = MapSet(EmptyMap, "abc123", OwnerShare(1))
    /\ authResult = [token |-> "abc123", documentName |-> PermissionsName, result |-> "ok"]
    /\ <<"abc123", PermissionsName>> \in authed

\* C2: on a tenant whose permission map is non-empty, onAuthenticate(U, ...) fails with
\* 'Not authorized' for every token U that does not hold role owner in the map and
\* succeeds, returning {token: U}, for every token that does; the map is left as it is.
C2_OnlyOwnersAuthenticate ==
    [][\A token \in Tokens, documentName \in DocumentNames :
          LET tsid == parseDocumentName(documentName).tsid
          IN  (onAuthenticate(token, documentName) /\ MapSize(permissionsServerDoc[tsid]) > 0)
                 => /\ permissionsServerDoc' = permissionsServerDoc
                    /\ IF HoldsOwner(tsid, token)
                       THEN /\ <<token, documentName>> \in authed'
                            /\ authResult'.result = "ok"
                       ELSE /\ authed' = authed
                            /\ authResult'.result = "Not authorized"]_vars

\* C2 witness: after the bootstrap by abc123, a second token xyz789 was refused
C2_Witness ==
    /\ permissionsServerDoc["ts1"] = MapSet(EmptyMap, "abc123", OwnerShare(0))
    /\ authResult = [token |-> "xyz789", documentName |-> PermissionsName,
                     result |-> "Not authorized"]

\* C3 (as claimed): a tenant's server-side permission map that is non-empty holds at
\* least one Share with role owner; and a map that was non-empty stays so.
C3_OwnerAlways ==
    [][\A tsid \in Tenants :
          /\ MapSize(permissionsServerDoc'[tsid]) > 0
                => \E token \in Tokens : HoldsOwner(tsid, token)'
          /\ MapSize(permissionsServerDoc[tsid]) > 0
                => MapSize(permissionsServerDoc'[tsid]) > 0]_vars

\* C4: at every load, for every kind of document: the client replica of the permissions
\* document is seeded, a StoreHandle of the tenant is opened, or a bind of one of the
\* tenant's documents is started only in a step that takes up the session of a connection
\* whose token holds role owner in the tenant's server-side map at that moment.
C4_SessionsGated ==
    [][\A tsid \in Tenants :
          (\/ ~observed[tsid] /\ observed'[tsid]
           \/ \E h \in handleOpen' \ handleOpen : h[1] = tsid
           \/ \E d \in BindNamesOf({tsid}) : bind[d].pc = "idle" /\ bind'[d].pc # "idle")
             => \E token \in Tokens, d \in DocumentNamesOf({tsid}) :
                   /\ <<token, d>> \in authed \ authed'
                   /\ HoldsOwner(tsid, token)]_vars

\* C4 witness: abc123 authenticated for the thought document and lost the owner role
\* before its load: the document is live, nothing is opened for it and nothing is bound
C4_Witness ==
    /\ encodeThoughtDocumentName("ts1", "T1") \in documents
    /\ connected[encodeThoughtDocumentName("ts1", "T1")] = 1
    /\ bind[encodeThoughtDocumentName("ts1", "T1")].pc = "idle"
    /\ handler[encodeThoughtDocumentName("ts1", "T1")] = NoHandle
    /\ handleGen[<<"ts1", "content">>] = 0
    /\ ~HoldsOwner("ts1", "abc123")

\* the doclog of ts1 and the thought and lexeme documents the claims below are about
DocLogName == encodeDocLogDocumentName("ts1")
ThoughtName == encodeThoughtDocumentName("ts1", "T1")
LexemeName == encodeLexemeDocumentName("ts1", "L1")

\* C5 (as claimed): every Delete entry appended to the causal log of ts1 leads to a
\* state where the storage key of its entity is cleared in the content store, whatever
\* the loads, disconnects and reconnects in between.
C5_DeleteEventuallyClears ==
    \A n \in 1..MaxLog, shape \in DeleteShapes :
        (Entry(n, shape) \in ydoc[DocLogName] \cup persisted[DocLogName])
            ~> (persisted[EntryName("ts1", Entry(n, shape))] = {})

\* C6 (as claimed): once the controller has processed a Delete entry of ts1, the content
\* store holds nothing under the storage key of the entry's entity.
C6_DeletePropagates ==
    [][(ReplicationStep("ts1")
          /\ NthEntry(ydoc[DocLogName], controller["ts1"].cursor + 1).action
                = DocLogAction.Delete)
         => persisted'[EntryName("ts1",
                 NthEntry(ydoc[DocLogName], controller["ts1"].cursor + 1))] = {}]_vars

PersistedCursor(tsid) == IF cursorDisk[tsid] = NoCursor THEN 0 ELSE cursorDisk[tsid]

\* C8 (as claimed): the persisted cursor of ts1 never moves backwards, and while the
\* controller runs it is never before the last entry the controller has processed.
C8_CursorMonotonic ==
    [][/\ PersistedCursor("ts1")' >= PersistedCursor("ts1")
       /\ controller'["ts1"].pc = "run"
             => PersistedCursor("ts1")' >= controller'["ts1"].cursor]_vars

\* C9 (as claimed): a document whose bind has resolved, and whose store is open, has
\* every mutation made since the start of the bind in the store.
C9_BindCapturesAll ==
    \A d \in BindNames :
        (/\ d \in documents
         /\ bind[d].pc = "idle"
         /\ handler[d] # NoHandle
         /\ HandleOpenFor(d, handler[d]))
           => ydoc[d] \subseteq persisted[d]

\* C10: at most one StoreHandle is open per tenant and kind, it is the one the registry
\* holds, and the loads in flight whose handle is open all hold that one.
C10_HandleSingleton ==
    /\ \A h \in handleOpen :
          h[3] = (CASE h[2] = "content" -> ldbThoughtspaces[h[1]]
                    [] h[2] = "log" -> ldbDoclogs[h[1]]
                    [] OTHER -> ldbReplicationCursors[h[1]])
    /\ \A tsid \in Tenants, kind \in StoreKinds :
          Cardinality({h \in handleOpen : h[1] = tsid /\ h[2] = kind}) <= 1
    /\ \A d1 \in BindNames, d2 \in BindNames :
          (/\ parseDocumentName(d1).tsid = parseDocumentName(d2).tsid
           /\ StoreKind(d1) = StoreKind(d2)
           /\ bind[d1].pc # "idle" /\ HandleOpenFor(d1, bind[d1].db)
           /\ bind[d2].pc # "idle" /\ HandleOpenFor(d2, bind[d2].db))
             => bind[d1].db = bind[d2].db

\* C10 witness: the loads of a thought and of a lexeme of ts1 are in flight together
\* and hold the one open content handle of the registry
C10_Witness ==
    /\ bind[ThoughtName].pc # "idle"
    /\ bind[LexemeName].pc # "idle"
    /\ bind[ThoughtName].db = ldbThoughtspaces["ts1"]
    /\ bind[LexemeName].db = ldbThoughtspaces["ts1"]
    /\ IsOpen("ts1", "content", ldbThoughtspaces["ts1"])

\* C11: a disconnect of the doclog of a tenant destroys the tenant's content and log
\* handles and closes its cursor handle, and removes the content and log entries from
\* the registries; the cursor entry is removed when close() has resolved; and an entry
\* appears in a registry only with a handle opened by a load.
C11_DisconnectTeardown ==
    [][\A tsid \in Tenants :
          /\ Disconnect(encodeDocLogDocumentName(tsid))
                => /\ ldbThoughtspaces'[tsid] = NoHandle
                   /\ ldbDoclogs'[tsid] = NoHandle
                   /\ \A h \in handleOpen' : h[1] # tsid
                   /\ ldbReplicationCursors[tsid] # NoHandle => closing'[tsid]
          /\ CloseResolved(tsid) => ldbReplicationCursors'[tsid] = NoHandle
          /\ (ldbThoughtspaces[tsid] = NoHandle /\ ldbThoughtspaces'[tsid] # NoHandle)
                => <<tsid, "content", ldbThoughtspaces'[tsid]>> \in handleOpen' \ handleOpen
          /\ (ldbDoclogs[tsid] = NoHandle /\ ldbDoclogs'[tsid] # NoHandle)
                => <<tsid, "log", ldbDoclogs'[tsid]>> \in handleOpen' \ handleOpen
          /\ (ldbReplicationCursors[tsid] = NoHandle /\ ldbReplicationCursors'[tsid] # NoHandle)
                => <<tsid, "cursor", ldbReplicationCursors'[tsid]>>
                      \in handleOpen' \ handleOpen]_vars

\* C11 witness: the three stores of ts1 were opened, the doclog disconnected and close()
\* resolved: nothing of ts1 is open and the registries hold no entry for ts1
C11_Witness ==
    /\ \A kind \in StoreKinds : handleGen[<<"ts1", kind>>] >= 1
    /\ DocLogName \notin documents
    /\ ldbThoughtspaces["ts1"] = NoHandle
    /\ ldbDoclogs["ts1"] = NoHandle
    /\ ldbReplicationCursors["ts1"] = NoHandle
    /\ ~closing["ts1"]
    /\ \A h \in handleOpen : h[1] # "ts1"

\* C12: a doclog disconnect leaves what is persisted as it is; a load of a thought or
\* lexeme document of a tenant with no content handle opens a fresh one; and when the
\* bind of the document resolves, everything persisted under its name is in the live
\* document.
C12_ReconnectRestores ==
    [][/\ \A tsid \in Tenants :
             Disconnect(encodeDocLogDocumentName(tsid)) => persisted' = persisted
       /\ \A d \in ContentNamesOf(Tenants) :
             LET tsid == parseDocumentName(d).tsid
             IN  /\ (/\ bind[d].pc = "idle" /\ bind'[d].pc # "idle"
                      /\ ldbThoughtspaces[tsid] = NoHandle)
                        => /\ bind'[d].db > handleGen[<<tsid, "content">>]
                           /\ bind'[d].db = ldbThoughtspaces'[tsid]
                           /\ <<tsid, "content", bind'[d].db>> \in handleOpen'
                 /\ (BindSubscribe(d) /\ bind[d].readOk)
                        => /\ persisted[d] \subseteq ydoc'[d]
                           /\ d \in documents'
                           /\ handler'[d] = bind[d].db]_vars

\* C12 witness: the content store of ts1 was opened, destroyed by a doclog disconnect and
\* opened again by a load of thought T1, whose bind has resolved with the persisted
\* update in the live document
C12_Witness ==
    /\ handleGen[<<"ts1", "content">>] = 2
    /\ ThoughtName \in documents
    /\ bind[ThoughtName].pc = "idle"
    /\ handler[ThoughtName] = 2
    /\ IsOpen("ts1", "content", 2)
    /\ persisted[ThoughtName] = {"u1"}
    /\ ydoc[ThoughtName] = {"u1"}

\* C13: the server listens only when the bind of the permissions document has resolved;
\* at the moment it starts listening every persisted share is in the server-side
\* document; and onAuthenticate and onLoadDocument run only while it listens.
C13_ListenAfterSync ==
    [][/\ startup'.listening => startup'.pc = "synced"
       /\ Listen => \A tsid \in Tenants : \A token \in DOMAIN permissionsDisk[tsid] :
                       /\ MapHas(permissionsServerDoc'[tsid], token)
                       /\ permissionsServerDoc'[tsid][token] = permissionsDisk[tsid][token]
       /\ \A token \in Tokens, documentName \in DocumentNames :
             (onAuthenticate(token, documentName) \/ LoadDocument(token, documentName))
                => startup.listening /\ startup.pc = "synced"]_vars

\* C13 witness: after a restart the owner recorded by the earlier run is in the
\* server-side map, and a second token that authenticated was refused
C13_Witness ==
    /\ startup.listening
    /\ startup.docPersisted["ts1"] = MapSet(EmptyMap, "abc123", OwnerShare(0))
    /\ permissionsServerDoc["ts1"] = MapSet(EmptyMap, "abc123", OwnerShare(0))
    /\ authResult = [token |-> "xyz789", documentName |-> PermissionsName,
                     result |-> "Not authorized"]

\* what the server holds for a tenant: its server-side permission map, in memory and as
\* stored, its registry entries and open handles, its persisted documents and its cursor
TenantState(tsid) ==
    <<permissionsServerDoc[tsid], permissionsDisk[tsid],
      ldbThoughtspaces[tsid], ldbDoclogs[tsid], ldbReplicationCursors[tsid],
      {h \in handleOpen : h[1] = tsid},
      [d \in BindNamesOf({tsid}) |-> persisted[d]], cursorDisk[tsid]>>

\* a step of a session of the tenant
TenantStep(tsid) ==
    \/ Connections(Tokens, DocumentNamesOf({tsid}))
    \/ PermissionEdits(tsid, Tokens, ClientShares \cup {EmptyShare})
    \/ BindSteps(DocumentNamesOf({tsid}))
    \/ Edits(DocumentNamesOf({tsid}), ContentUpdates)
    \/ Replication(tsid, EntryShapes)
    \/ CloseResolved(tsid)

\* C14: a step of a session of tenant A (authenticate, load, bind, client-replica
\* change, append, replication step, disconnect) leaves the state of every other tenant B
\* as it is.
C14_TenantIsolation ==
    [][\A A \in Tenants, B \in Tenants :
          (A # B /\ TenantStep(A)) => TenantState(B)' = TenantState(B)]_vars

\* C14 witness: the doclog of ts1 was loaded, a Delete of its thought T1 was replicated
\* and the doclog disconnected, and a client of ts2 gave abc123 a share in ts2; ts2 still
\* has its content and its open content store, and ts1 its own owner only
C14_Witness ==
    /\ deliveries["ts1"][1] = 1
    /\ persisted[encodeThoughtDocumentName("ts1", "T1")] = {}
    /\ ldbThoughtspaces["ts1"] = NoHandle
    /\ persisted[encodeThoughtDocumentName("ts2", "T1")] = {"u1"}
    /\ IsOpen("ts2", "content", ldbThoughtspaces["ts2"])
    /\ MapHas(permissionsServerDoc["ts2"], "abc123")
    /\ DOMAIN permissionsServerDoc["ts1"] = {"abc123"}

C17_RestartFromCursor ==
    [][\A tsid \in Tenants :
          ReplicationStep(tsid) => controller[tsid].cursor + 1 > PersistedCursor(tsid)]_vars

\* the controller hands a Delete entry to next while no content handle is registered
SkipsDelete(tsid) ==
    /\ ReplicationStep(tsid)
    /\ NthEntry(ydoc[encodeDocLogDocumentName(tsid)], controller[tsid].cursor + 1).action
          = DocLogAction.Delete
    /\ ldbThoughtspaces[tsid] = NoHandle

\* a Delete handed over with no content handle registered clears nothing, is reported,
\* and the cursor advances past it, in memory and in the cursor store when that is open
SkippedCountsAsProcessed(tsid) ==
    SkipsDelete(tsid)
      => /\ persisted' = persisted
         /\ "LeveldbPersistence instance missing" \in console'
         /\ controller'[tsid].cursor = controller[tsid].cursor + 1
         /\ IsOpen(tsid, "cursor", controller[tsid].cursorDb)
               => cursorDisk'[tsid] = controller[tsid].cursor + 1

\* a Delete that was skipped is not handed over again. Nothing writes content in the
\* specification this is checked under, so content under the key of an entry that was
\* delivered before means that delivery was skipped
SkippedNeverRetried(tsid) ==
    LET entry == NthEntry(ydoc[encodeDocLogDocumentName(tsid)], controller[tsid].cursor + 1)
    IN  (ReplicationStep(tsid) /\ entry.action = DocLogAction.Delete)
          => ~(deliveries[tsid][entry.n] >= 1 /\ persisted[EntryName(tsid, entry)] # {})

\* C18 (as claimed): a Delete entry processed while the tenant has no content handle in
\* the registry clears nothing and is reported, the cursor advances past it, and the
\* entry is never handed to next again.
C18_MissingContentStore ==
    [][\A tsid \in Tenants : SkippedCountsAsProcessed(tsid) /\ SkippedNeverRetried(tsid)]_vars

\* C19 (as claimed): an entry appended to the doclog of a tenant while the doclog is
\* bound and its log store is open is in the log store after the append, also when a
\* Delete entry of the same session has been processed before.
C19_EveryAppendPersisted ==
    [][\A tsid \in Tenants, shape \in EntryShapes :
          (/\ AppendEntry(tsid, shape)
           /\ controller[tsid].pc # "off"
           /\ ldbDoclogs[tsid] # NoHandle
           /\ IsOpen(tsid, "log", ldbDoclogs[tsid]))
             => Entry(logSeq[tsid] + 1, shape) \in persisted'[encodeDocLogDocumentName(tsid)]]_vars

\* the client share is present and differs from the server's entry in name or role
DiffersInNameOrRole(serverMap, key, share) ==
    /\ share # EmptyShare
    /\ \/ ~MapHas(serverMap, key)
       \/ serverMap[key].name # share.name
       \/ serverMap[key].role # share.role

\* C20: while the observer of a tenant's permissions document is installed, a removal
\* of a key removes the server entry; a key set to a present share that differs from
\* the server's in name or role sets the server entry to that share; a key set to an
\* empty value, or to a share that differs only in created/accessed, leaves the
\* server map as it was.
C20_Reconciliation ==
    [][\A tsid \in Tenants, key \in Tokens :
          /\ (observed[tsid] /\ ClientDelete(tsid, key))
                => permissionsServerDoc'[tsid] = MapDelete(permissionsServerDoc[tsid], key)
          /\ \A share \in ClientShares \cup {EmptyShare} :
                (observed[tsid] /\ ClientSet(tsid, key, share))
                  => permissionsServerDoc'[tsid] =
                       IF DiffersInNameOrRole(permissionsServerDoc[tsid], key, share)
                       THEN MapSet(permissionsServerDoc[tsid], key, share)
                       ELSE permissionsServerDoc[tsid]]_vars

\* the client map holds a share for the owner that differs from the server's entry
\* only in its accessed time, and the server's entry is the one assigned at bootstrap
C20_Witness ==
    /\ observed["ts1"]
    /\ MapHas(permissionsServerDoc["ts1"], "abc123")
    /\ MapHas(permissionsClientMap["ts1"], "abc123")
    /\ permissionsServerDoc["ts1"]["abc123"] = OwnerShare(0)
    /\ permissionsClientMap["ts1"]["abc123"] =
          [OwnerShare(0) EXCEPT !.accessed = MaxClock]

\* the signal handler leaves no content, log or cursor store open
SigintClosesAll == Sigint => handleOpen' = {}

\* the process has exited when the handler has run: the server takes no further step
ExitsAfterSigint == ~sigint

\* C21 (as claimed): on an interrupt signal every handle of the content and log
\* registries is destroyed and every cursor store of the cursor registry is closed, and
\* then the process exits: after the signal has been handled the server does nothing
\* more and no store is open.
C21_GracefulShutdown ==
    [][SigintClosesAll /\ ExitsAfterSigint]_vars

\* C22: a load of a document whose kind is none of thought, lexeme, doclog and
\* permissions, by a token that passes the owner gate, is reported on the console; the
\* load opens no StoreHandle, starts no bind, changes no registry, no permission state
\* and nothing stored, and the connection is established on the live document.
C22_UnrecognizedKind ==
    [][\A token \in Tokens, documentName \in UnrecognizedNamesOf(Tenants) :
          LoadDocument(token, documentName)
            => /\ Permitted(permissionsServerDoc[parseDocumentName(documentName).tsid], token)
                     => "Unrecognized doc type" \in console'
               /\ handleOpen' = handleOpen /\ handleGen' = handleGen
               /\ ldbThoughtspaces' = ldbThoughtspaces /\ ldbDoclogs' = ldbDoclogs
               /\ ldbReplicationCursors' = ldbReplicationCursors
               /\ bind' = bind /\ handler' = handler /\ ydoc' = ydoc
               /\ permissionsServerDoc' = permissionsServerDoc
               /\ permissionsClientMap' = permissionsClientMap /\ observed' = observed
               /\ persisted' = persisted /\ permissionsDisk' = permissionsDisk
               /\ documentName \in documents'
               /\ connected'[documentName] = 1
               /\ authResult' = authResult]_vars

\* C22 witness: the owner's connection to a document of unknown kind is established and
\* reported, while the content store of ts1 is open and holds what it held
C22_Witness ==
    /\ <<"ts1", "unknown">> \in documents
    /\ connected[<<"ts1", "unknown">>] = 1
    /\ "Unrecognized doc type" \in console
    /\ IsOpen("ts1", "content", ldbThoughtspaces["ts1"])
    /\ handleGen[<<"ts1", "content">>] = 1
    /\ persisted[encodeThoughtDocumentName("ts1", "T1")] = {"u1"}

\* the read of the cursor fails: no cursor was ever stored, or the read is refused
CursorReadFails(tsid) ==
    \/ cursorDisk[tsid] = NoCursor
    \/ ~IsOpen(tsid, "cursor", controller[tsid].cursorDb)

\* C23: when the read of the cursor fails, the controller is not stopped by it and
\* starts at the beginning of the log; and as long as no cursor has been stored the
\* controller hands the entries over in log order from the first, skipping none.
C23_MissingCursor ==
    [][\A tsid \in Tenants :
          /\ (ControllerStart(tsid) /\ CursorReadFails(tsid))
                => /\ controller'[tsid].pc = "run"
                   /\ controller'[tsid].cursor = 0
          /\ (controller[tsid].pc = "run" /\ cursorDisk[tsid] = NoCursor)
                => \A k \in 1..controller[tsid].cursor :
                      deliveries[tsid][NthEntry(ydoc[encodeDocLogDocumentName(tsid)], k).n] >= 1
          /\ (ReplicationStep(tsid) /\ cursorDisk[tsid] = NoCursor)
                => deliveries'[tsid][NthEntry(ydoc[encodeDocLogDocumentName(tsid)],
                                              controller[tsid].cursor + 1).n] >= 1]_vars

\* C23 witness: on a first run (no cursor stored, the cursor store open) the controller
\* of ts1 has started at the beginning of the log and has handed its two entries to
\* next, each once
C23_Witness ==
    /\ controller["ts1"].pc = "run"
    /\ controller["ts1"].cursor = 2
    /\ handleGen[<<"ts1", "cursor">>] = 1
    /\ deliveries["ts1"] = [n \in 1..MaxLog |-> IF n <= 2 THEN 1 ELSE 0]
    /\ Cardinality(ydoc[DocLogName]) = 2

\* C24: a disconnect of a thought, lexeme or permissions document (or of a document of
\* unknown kind) leaves the three registries and the open handles as they are; a
\* disconnect that changes them is a doclog's, and it leaves no handle of its tenant open.
C24_OnlyDocLogTearsDown ==
    [][\A documentName \in DocumentNames :
          Disconnect(documentName)
            => IF parseDocumentName(documentName).type = "doclog"
               THEN \A h \in handleOpen' : h[1] # parseDocumentName(documentName).tsid
               ELSE /\ ldbThoughtspaces' = ldbThoughtspaces
                    /\ ldbDoclogs' = ldbDoclogs
                    /\ ldbReplicationCursors' = ldbReplicationCursors
                    /\ handleOpen' = handleOpen
                    /\ handleGen' = handleGen
                    /\ closing' = closing]_vars

\* C24 witness: thought T1 of ts1 was loaded, edited and disconnected, the doclog was
\* never loaded: the content store opened for T1 is still registered and open
C24_Witness ==
    /\ ThoughtName \notin documents
    /\ persisted[ThoughtName] = {"u1"}
    /\ handleGen[<<"ts1", "content">>] = 1
    /\ handleGen[<<"ts1", "log">>] = 0
    /\ ldbThoughtspaces["ts1"] = 1
    /\ IsOpen("ts1", "content", 1)

\* C25: whatever the order in which the tokens authenticate for the first time against
\* an empty tenant, the tenant's map holds at most one token, installed as Owner with
\* role owner; a context is handed only to that token; and an authentication that finds
\* the map non-empty installs nothing.
C25_BootstrapAtomic ==
    [][/\ \A tsid \in Tenants :
             /\ MapSize(permissionsServerDoc'[tsid]) <= 1
             /\ \A token \in DOMAIN permissionsServerDoc'[tsid] :
                   /\ permissionsServerDoc'[tsid][token].role = "owner"
                   /\ permissionsServerDoc'[tsid][token].name = "Owner"
             /\ MapSize(permissionsServerDoc[tsid]) > 0
                   => permissionsServerDoc'[tsid] = permissionsServerDoc[tsid]
       /\ \A a \in authed' :
             MapHas(permissionsServerDoc'[parseDocumentName(a[2]).tsid], a[1])
       /\ authResult'.result = "ok"
             => MapHas(permissionsServerDoc'[parseDocumentName(authResult'.documentName).tsid],
                       authResult'.token)]_vars

\* C25 witness: abc123 bootstrapped ts1 and xyz789 was then refused there, and xyz789
\* bootstrapped ts2 where abc123 has no share
C25_Witness ==
    /\ DOMAIN permissionsServerDoc["ts1"] = {"abc123"}
    /\ DOMAIN permissionsServerDoc["ts2"] = {"xyz789"}
    /\ authResult = [token |-> "xyz789", documentName |-> PermissionsName,
                     result |-> "Not authorized"]

\* C26 (as claimed): no update, clear or cursor write is issued against a StoreHandle
\* that has been destroyed or closed; an edit of a bound thought or lexeme document
\* made after the doclog of its tenant disconnected is not written through the
\* destroyed content handle.
C26_NoUseAfterDestroy ==
    /\ ~ioOnDestroyed
    /\ \A d \in BindNames :
          (d \in documents /\ connected[d] > 0 /\ handler[d] # NoHandle)
             => HandleOpenFor(d, handler[d])

====
